---- MODULE Spec2Model ----
(***************************************************************************)
(* A model of the development reloader (src/reloader.py): the debouncing   *)
(* RestartHandler, the restart_process callback and the polling loop of    *)
(* main(), together with the child processes they own.                     *)
(*                                                                         *)
(* Time is counted in tenths of a second: 1.0 s is 10, 2 s is 20.          *)
(*                                                                         *)
(* Two threads run the program.  The main thread executes main(); the      *)
(* watchdog observer thread takes events from its queue and calls          *)
(* RestartHandler.on_modified, hence restart_process, one event at a time. *)
(* What the model takes from watchdog (which is not part of the            *)
(* repository): the observer dispatches a handler while holding the        *)
(* observer's lock; Observer.stop() takes the same lock to clear the       *)
(* handlers, so it returns only when no handler is running and none runs   *)
(* afterwards; an exception leaving a handler ends the observer thread.    *)
(***************************************************************************)
EXTENDS Integers, Sequences, FiniteSets, TLC

VARIABLES
    now,          \* time.time(), in tenths of a second
    mpc,          \* position of the main thread in main()
    wakeAt,       \* when the main thread's time.sleep(1) ends
    interrupted,  \* a KeyboardInterrupt was delivered to the main thread
    opc,          \* position of the observer thread / of on_modified
    waitDeadline, \* when process.wait(timeout=2) gives up
    stopped,      \* observer.stop() has returned
    queue,        \* events the observer has not dispatched yet
    process,      \* main()'s variable "process": handle of the current child
    children,     \* the OS processes started by run_app, by handle
    last_reload,  \* RestartHandler.last_reload
    signal,       \* the latest invocation of the callback (history)
    event,        \* the argument of the on_modified call of this instant
    log,          \* the watched-file events on_modified has handled (history)
    manifest,     \* launcher: requirements.txt is "present", "absent" or "unreadable"
    ipc,          \* launcher: position of the DependencyInstaller thread in run()
    pip,          \* launcher: the install subprocess and its stderr
    pipe,         \* launcher: the characters written to its stdout and not read
    wrote,        \* launcher: all the characters it has written to stdout (history)
    emitted,      \* launcher: the signals DependencyInstaller has emitted, in order
    gui,          \* launcher: how many of them the GUI thread has handled
    window        \* launcher: what LauncherWindow shows and has done

\* The variables of the launcher (src/launcher.py).
lvars == <<manifest, ipc, pip, pipe, wrote, emitted, gui, window>>

vars == <<now, mpc, wakeAt, interrupted, opc, waitDeadline, stopped, queue,
          process, children, last_reload, signal, event, log, manifest, ipc,
          pip, pipe, wrote, emitted, gui, window>>

----------------------------------------------------------------------------
(* Program constants, in tenths of a second.                               *)

\* reloader.py:20  "time.time() - self.last_reload > 1.0"
MinInterval == 10
\* reloader.py:49  "process.wait(timeout=2)"
GracePeriod == 20
\* reloader.py:63  "time.sleep(1)"
SleepInterval == 10

(* Bounds of the model.                                                    *)
MaxTime == 50
MaxSpawn == 3
MaxQueue == 1
MaxEvents == 3
MaxHandlerTime == 26
MaxCallbackTime == 1
MaxOutput == 3
PipeCapacity == 2

\* The supervisor's clock advances in steps of half the debounce interval.
TimeStep == MinInterval \div 2

----------------------------------------------------------------------------
(* Paths are sequences of characters, so that str.endswith is computed.    *)

EndsWith(s, suffix) ==
    /\ Len(s) >= Len(suffix)
    /\ SubSeq(s, Len(s) - Len(suffix) + 1, Len(s)) = suffix

DotPy  == <<".", "p", "y">>
DotIni == <<".", "i", "n", "i">>

AppPy     == <<"a", "p", "p", ".", "p", "y">>
ConfigIni == <<"c", ".", "i", "n", "i">>
NotesTxt  == <<"n", ".", "t", "x", "t">>
AppPyc    == <<"a", ".", "p", "y", "c">>

\* The watchdog events the handler is given, as far as they are read.
Events ==
    {[src_path |-> AppPy, is_directory |-> FALSE, event_type |-> "modified"],
     [src_path |-> ConfigIni, is_directory |-> FALSE, event_type |-> "modified"],
     [src_path |-> NotesTxt, is_directory |-> FALSE, event_type |-> "modified"],
     [src_path |-> AppPyc, is_directory |-> FALSE, event_type |-> "modified"],
     [src_path |-> AppPy, is_directory |-> TRUE, event_type |-> "modified"],
     [src_path |-> AppPy, is_directory |-> FALSE, event_type |-> "created"],
     [src_path |-> AppPy, is_directory |-> FALSE, event_type |-> "deleted"]}

NoEvent == [src_path |-> <<>>, is_directory |-> FALSE, event_type |-> "-"]

\* Qualifies without line 14-15: directory events are not discarded.
QualifiesDirectoriesToo(e) ==
    EndsWith(e.src_path, DotPy) \/ EndsWith(e.src_path, DotIni)

\* on_modified, lines 14-18: the event passes the directory and extension filter.
Qualifies(e) ==
    /\ ~e.is_directory
    /\ (EndsWith(e.src_path, DotPy) \/ EndsWith(e.src_path, DotIni))

\* GateOpen for a gate that opens when the interval has just elapsed.
GateOpenAtInterval(t, lr) == t - lr >= MinInterval

\* on_modified, line 20: the debounce gate.
GateOpen(t, lr) == t - lr > MinInterval

\* on_modified, lines 14-22: the event makes the handler call its callback.
Fires(e, t, lr) == Qualifies(e) /\ GateOpen(t, lr)

----------------------------------------------------------------------------
(* Child processes.                                                        *)

Handles == 1..MaxSpawn

\* st: "none" (not started), "running", "exited".  sig: the strongest signal
\* the supervisor has sent it.  rc: the exit code.  seen: the Popen object
\* knows the exit (returncode is set, by poll, wait or send_signal).  own: it
\* exited by itself (no signal sent) as the current child of a supervisor that
\* was Running.  at: when run_app started it (history).
NoChild ==
    [st |-> "none", sig |-> "none", rc |-> 0, seen |-> FALSE, own |-> FALSE,
     at |-> 0]
NewChild ==
    [st |-> "running", sig |-> "none", rc |-> 0, seen |-> FALSE, own |-> FALSE,
     at |-> now]

\* Popen.poll(): returncode is set if the child has exited.
Polled(c) == IF c.st = "exited" THEN [c EXCEPT !.seen = TRUE] ELSE c

\* The number of children run_app has started.
nSpawned == Cardinality({h \in Handles : children[h].st # "none"})

Alive == {h \in Handles : children[h].st = "running"}

\* The exit codes a child can end with.  A child that got SIGTERM may handle it
\* and exit with any code or die of it (-15); SIGKILL cannot be handled (-9).
ExitCodes(c) ==
    CASE c.sig = "none" -> {0, 1}
      [] c.sig = "term" -> {0, -15}
      [] c.sig = "kill" -> {-9}

\* Terminated sending SIGTERM to the process id whatever the child's state.
TerminatedUnconditionally(c) == [c EXCEPT !.sig = "term"]

\* Popen.terminate(): SIGTERM, unless the child has exited already.
Terminated(c) ==
    IF c.st = "running" /\ c.sig = "none" THEN [c EXCEPT !.sig = "term"]
    ELSE Polled(c)

\* Popen.kill(): SIGKILL, unless the child has exited already.
Killed(c) ==
    IF c.st = "running" THEN [c EXCEPT !.sig = "kill"] ELSE Polled(c)

\* A call of the callback: the phase it found, the current child it found and
\* whether no child was running then.
NoSignal == [phase |-> "-", proc |-> 0, idle |-> FALSE]

\* The supervisor's phase, read off the two threads and the current child.
Phase ==
    IF mpc = "start" THEN "Bootstrapping"
    ELSE IF mpc \in {"join", "done", "failed"} THEN "Stopped"
    ELSE IF opc \in {"wait", "kill", "spawn", "set"} THEN "Restarting"
    ELSE IF children[process].st = "exited" /\ children[process].rc # 0
         THEN "Crashed"
    ELSE "Running"

----------------------------------------------------------------------------
Init ==
    /\ now = 0
    /\ mpc = "start"
    /\ wakeAt = 0
    /\ interrupted = FALSE
    /\ opc = "none"
    /\ waitDeadline = 0
    /\ stopped = FALSE
    /\ queue = <<>>
    /\ process = 0
    /\ children = [h \in Handles |-> NoChild]
    /\ last_reload = 0
    /\ signal = NoSignal
    /\ event = NoEvent
    /\ log = <<>>
    /\ manifest = "present"
    /\ ipc = "none"
    /\ pip = [st |-> "none", rc |-> 0, err |-> <<>>, plan |-> <<>>]
    /\ pipe = <<>>
    /\ wrote = <<>>
    /\ emitted = <<>>
    /\ gui = 0
    /\ window = [log_label |-> <<"Checking environment...">>,
                 title |-> "Initializing", button |-> FALSE, timer |-> FALSE,
                 closed |-> FALSE, launches |-> 0, critical |-> FALSE]

\* The main thread has a statement to execute: it is not inside time.sleep and
\* not blocked in observer.stop() or observer.join().
MainReady ==
    \/ mpc = "sleep" /\ now >= wakeAt
    \/ mpc \in {"clean_stop", "int_stop"} /\ opc \in {"idle", "dead"}
    \/ mpc = "int_term"
    \/ mpc = "join" /\ opc \in {"finished", "dead"}

\* The observer thread has a statement to execute: it is not waiting for an
\* event, nor inside process.wait with the child running and time left.
ObserverReady ==
    \/ opc \in {"kill", "spawn", "set"}
    \/ opc = "wait" /\ (children[process].st = "exited" \/ now >= waitDeadline)
    \/ /\ opc = "idle" /\ ~stopped /\ queue # <<>>
       /\ (Fires(Head(queue), now, last_reload) =>
              nSpawned < MaxSpawn)

\* The clock of the supervisor model: time passes while main() runs and both
\* threads are blocked (a statement takes no time, a sleep or a wait does).
Tick ==
    /\ mpc \notin {"start", "done", "failed"}
    /\ ~MainReady
    /\ ~ObserverReady
    /\ now + TimeStep <= MaxTime
    /\ now' = now + TimeStep
    /\ UNCHANGED <<mpc, wakeAt, interrupted, opc, waitDeadline, stopped, queue,
                   process, children, last_reload, signal, event, log>>
    /\ UNCHANGED lvars

\* main, lines 33-38: watchdog cannot be imported; main returns.
MainImportError ==
    /\ mpc = "start"
    /\ mpc' = "done"
    /\ UNCHANGED <<now, wakeAt, interrupted, opc, waitDeadline, stopped, queue,
                   process, children, last_reload, signal, event, log>>
    /\ UNCHANGED lvars

\* main, lines 40-63: the first child is started, the handler is built
\* (last_reload = time.time()), the observer is started and the loop entered.
MainStart ==
    /\ mpc = "start"
    /\ process' = 1
    /\ children' = [children EXCEPT ![1] = NewChild]
    /\ last_reload' = now
    /\ opc' = "idle"
    /\ mpc' = "sleep"
    /\ wakeAt' = now + SleepInterval
    /\ UNCHANGED <<now, interrupted, waitDeadline, stopped, queue, signal,
                   event, log>>
    /\ UNCHANGED lvars

\* main, line 40: run_app raises (the child cannot be started); the exception
\* leaves main before the observer exists.
MainSpawnFails ==
    /\ mpc = "start"
    /\ mpc' = "failed"
    /\ UNCHANGED <<now, wakeAt, interrupted, opc, waitDeadline, stopped, queue,
                   process, children, last_reload, signal, event, log>>
    /\ UNCHANGED lvars

\* MainPoll with a crashed child restarted by the loop itself.
MainPollRestartsCrashed ==
    /\ mpc = "sleep"
    /\ now >= wakeAt
    /\ IF children[process].st = "exited" /\ children[process].rc = 0
       THEN /\ mpc' = "clean_stop"
            /\ wakeAt' = 0
            /\ process' = process
            /\ children' = [children EXCEPT ![process] = Polled(@)]
       ELSE /\ mpc' = "sleep"
            /\ wakeAt' = now + SleepInterval
            /\ IF children[process].st = "exited" /\ nSpawned < MaxSpawn
               THEN /\ process' = nSpawned + 1
                    /\ children' = [children EXCEPT ![process] = Polled(@),
                                                    ![nSpawned + 1] = NewChild]
               ELSE UNCHANGED <<process, children>>
    /\ UNCHANGED <<now, interrupted, opc, waitDeadline, stopped, queue,
                   last_reload, signal, event, log>>
    /\ UNCHANGED lvars

\* main, lines 63-73: the sleep is over, the current child is polled.
MainPoll ==
    /\ mpc = "sleep"
    /\ now >= wakeAt
    /\ children' = [children EXCEPT ![process] = Polled(@)]
    /\ IF children[process].st = "exited" /\ children[process].rc = 0
       THEN /\ mpc' = "clean_stop"
            /\ wakeAt' = 0
       ELSE /\ mpc' = "sleep"
            /\ wakeAt' = now + SleepInterval
    /\ UNCHANGED <<now, interrupted, opc, waitDeadline, stopped, queue, process,
                   last_reload, signal, event, log>>
    /\ UNCHANGED lvars

\* main, line 74: KeyboardInterrupt raised inside the try block (in the sleep,
\* or in the observer.stop() of line 69).
Interrupt ==
    /\ mpc \in {"sleep", "clean_stop"}
    /\ mpc' = "int_stop"
    /\ interrupted' = TRUE
    /\ wakeAt' = 0
    /\ UNCHANGED <<now, opc, waitDeadline, stopped, queue, process,
                   children, last_reload, signal, event, log>>
    /\ UNCHANGED lvars

\* ObserverStop returning at once, with the handler in progress left running.
ObserverStopNoWait ==
    /\ mpc \in {"clean_stop", "int_stop"}
    /\ stopped' = TRUE
    /\ queue' = <<>>
    /\ opc' = IF opc = "idle" THEN "finished" ELSE opc
    /\ mpc' = IF mpc = "clean_stop" THEN "join" ELSE "int_term"
    /\ UNCHANGED <<now, wakeAt, interrupted, waitDeadline, process, children,
                   last_reload, signal, event, log>>
    /\ UNCHANGED lvars

\* main, lines 69 and 75: observer.stop().  It waits for the handler in
\* progress, then no handler runs any more and the queued events are dropped;
\* the observer thread ends.
ObserverStop ==
    /\ mpc \in {"clean_stop", "int_stop"}
    /\ opc \in {"idle", "dead"}
    /\ stopped' = TRUE
    /\ queue' = <<>>
    /\ opc' = IF opc = "idle" THEN "finished" ELSE opc
    /\ mpc' = IF mpc = "clean_stop" THEN "join" ELSE "int_term"
    /\ UNCHANGED <<now, wakeAt, interrupted, waitDeadline, process, children,
                   last_reload, signal, event, log>>
    /\ UNCHANGED lvars

\* main, lines 76-77: after an interrupt the current child is sent SIGTERM.
MainTerminate ==
    /\ mpc = "int_term"
    /\ children' = [children EXCEPT ![process] = Terminated(@)]
    /\ mpc' = "join"
    /\ UNCHANGED <<now, wakeAt, interrupted, opc, waitDeadline, stopped, queue,
                   process, last_reload, signal, event, log>>
    /\ UNCHANGED lvars

\* main, line 79: observer.join(), then main returns.
MainJoin ==
    /\ mpc = "join"
    /\ opc \in {"finished", "dead"}
    /\ mpc' = "done"
    /\ UNCHANGED <<now, wakeAt, interrupted, opc, waitDeadline, stopped, queue,
                   process, children, last_reload, signal, event, log>>
    /\ UNCHANGED lvars

\* The watched directory changes: the observer's emitter queues an event.
FileChange(e) ==
    /\ opc # "none"
    /\ ~stopped
    /\ Len(queue) < MaxQueue
    /\ queue' = Append(queue, e)
    /\ UNCHANGED <<now, mpc, wakeAt, interrupted, opc, waitDeadline, stopped,
                   process, children, last_reload, signal, event, log>>
    /\ UNCHANGED lvars

\* Dispatch by an observer that calls on_modified for the next event while
\* the call for the previous one is still in its wait.
DispatchConcurrently ==
    /\ opc \in {"idle", "wait"}
    /\ ~stopped
    /\ queue # <<>>
    /\ queue' = Tail(queue)
    /\ IF Fires(Head(queue), now, last_reload)
       THEN /\ nSpawned < MaxSpawn
            /\ signal' = [phase |-> Phase, proc |-> process,
                           idle |-> (Alive = {})]
            /\ children' = [children EXCEPT ![process] = Terminated(@)]
            /\ opc' = "wait"
            /\ waitDeadline' = now + GracePeriod
       ELSE UNCHANGED <<signal, children, opc, waitDeadline>>
    /\ UNCHANGED <<now, mpc, wakeAt, interrupted, stopped, process, last_reload,
                   event, log>>
    /\ UNCHANGED lvars

\* The observer thread takes the next event and calls on_modified (lines
\* 13-22).  When the event fires, the callback restart_process starts (lines
\* 42-49): the current child is sent SIGTERM and the bounded wait begins.
Dispatch ==
    /\ opc = "idle"
    /\ ~stopped
    /\ queue # <<>>
    /\ queue' = Tail(queue)
    /\ IF Fires(Head(queue), now, last_reload)
       THEN /\ nSpawned < MaxSpawn
            /\ signal' = [phase |-> Phase, proc |-> process,
                           idle |-> (Alive = {})]
            /\ children' = [children EXCEPT ![process] = Terminated(@)]
            /\ opc' = "wait"
            /\ waitDeadline' = now + GracePeriod
       ELSE UNCHANGED <<signal, children, opc, waitDeadline>>
    /\ UNCHANGED <<now, mpc, wakeAt, interrupted, stopped, process, last_reload,
                   event, log>>
    /\ UNCHANGED lvars

\* restart_process, line 49: wait() returns, the child has exited.
WaitReturn ==
    /\ opc = "wait"
    /\ children[process].st = "exited"
    /\ children' = [children EXCEPT ![process] = Polled(@)]
    /\ opc' = "spawn"
    /\ waitDeadline' = 0
    /\ UNCHANGED <<now, mpc, wakeAt, interrupted, stopped, queue, process,
                   last_reload, signal, event, log>>
    /\ UNCHANGED lvars

\* WaitTimeout for process.wait() called without a timeout.
WaitNeverTimesOut ==
    /\ opc = "wait"
    /\ FALSE
    /\ UNCHANGED vars

\* restart_process, lines 49-50: the child is still running when the timeout
\* expires; wait() raises TimeoutExpired.
WaitTimeout ==
    /\ opc = "wait"
    /\ children[process].st = "running"
    /\ now >= waitDeadline
    /\ opc' = "kill"
    /\ UNCHANGED <<now, mpc, wakeAt, interrupted, waitDeadline, stopped, queue,
                   process, children, last_reload, signal, event, log>>
    /\ UNCHANGED lvars

\* restart_process, line 51: process.kill(); nothing waits for the child to go.
Kill ==
    /\ opc = "kill"
    /\ children' = [children EXCEPT ![process] = Killed(@)]
    /\ opc' = "spawn"
    /\ waitDeadline' = 0
    /\ UNCHANGED <<now, mpc, wakeAt, interrupted, stopped, queue,
                   process, last_reload, signal, event, log>>
    /\ UNCHANGED lvars

\* Respawn without "nonlocal process": the new child is started, the
\* variable of main() keeps the old one.
RespawnKeepsOldProcess ==
    /\ opc = "spawn"
    /\ nSpawned < MaxSpawn
    /\ children' = [children EXCEPT ![nSpawned + 1] = NewChild]
    /\ opc' = "set"
    /\ UNCHANGED <<now, mpc, wakeAt, interrupted, waitDeadline, stopped, queue,
                   process, last_reload, signal, event, log>>
    /\ UNCHANGED lvars

\* restart_process, line 53: process = run_app().
Respawn ==
    /\ opc = "spawn"
    /\ nSpawned < MaxSpawn
    /\ process' = nSpawned + 1
    /\ children' = [children EXCEPT ![nSpawned + 1] = NewChild]
    /\ opc' = "set"
    /\ UNCHANGED <<now, mpc, wakeAt, interrupted, waitDeadline, stopped, queue,
                   last_reload, signal, event, log>>
    /\ UNCHANGED lvars

\* restart_process, line 53: run_app raises; the exception leaves on_modified
\* (line 23 is skipped) and ends the observer thread.
RespawnFails ==
    /\ opc = "spawn"
    /\ opc' = "dead"
    /\ UNCHANGED <<now, mpc, wakeAt, interrupted, waitDeadline, stopped, queue,
                   process, children, last_reload, signal, event, log>>
    /\ UNCHANGED lvars

\* SetLastReload without the assignment of line 23.
SetLastReloadSkipped ==
    /\ opc = "set"
    /\ opc' = "idle"
    /\ UNCHANGED <<now, mpc, wakeAt, interrupted, waitDeadline, stopped, queue,
                   process, children, last_reload, signal, event, log>>
    /\ UNCHANGED lvars

\* on_modified, line 23: the callback has returned.
SetLastReload ==
    /\ opc = "set"
    /\ last_reload' = now
    /\ opc' = "idle"
    /\ UNCHANGED <<now, mpc, wakeAt, interrupted, waitDeadline, stopped, queue,
                   process, children, signal, event, log>>
    /\ UNCHANGED lvars

\* A child ends: by itself, or of a signal it was sent.
ChildExit(h, rc) ==
    /\ children[h].st = "running"
    /\ rc \in ExitCodes(children[h])
    /\ children' = [children EXCEPT ![h] =
                       [@ EXCEPT !.st = "exited", !.rc = rc,
                                 !.own = (h = process /\ children[h].sig = "none"
                                          /\ Phase = "Running")]]
    /\ UNCHANGED <<now, mpc, wakeAt, interrupted, opc, waitDeadline, stopped,
                   queue, process, last_reload, signal, event, log>>
    /\ UNCHANGED lvars

\* The events the supervisor model feeds the observer.
DirEvents ==
    {[src_path |-> AppPy, is_directory |-> FALSE, event_type |-> "modified"]}

Next ==
    \/ Tick
    \/ MainImportError
    \/ MainStart
    \/ MainSpawnFails
    \/ MainPoll
    \/ Interrupt
    \/ ObserverStop
    \/ MainTerminate
    \/ MainJoin
    \/ \E e \in DirEvents : FileChange(e)
    \/ Dispatch
    \/ WaitReturn
    \/ WaitTimeout
    \/ Kill
    \/ Respawn
    \/ RespawnFails
    \/ SetLastReload
    \/ \E h \in Handles, rc \in {0, 1, -15, -9} : ChildExit(h, rc)

Spec == Init /\ [][Next]_vars

\* Both threads are scheduled, and time passes while they are blocked.  Nothing
\* is assumed of the children, the file system or the operator.
MainStep == MainPoll \/ ObserverStop \/ MainTerminate \/ MainJoin
ObserverStep ==
    Dispatch \/ WaitReturn \/ WaitTimeout \/ Kill \/ Respawn \/ SetLastReload

FairSpec ==
    Spec /\ WF_vars(Tick) /\ WF_vars(MainStep) /\ WF_vars(ObserverStep)

----------------------------------------------------------------------------
(* RestartHandler on its own: on_modified is called with any event at any  *)
(* time, one call after the other; the callback takes any time and returns *)
(* or raises.  The clock advances in tenths of a second.                   *)

\* The instant at which the calls of on_modified begin.
HandlerStart == MinInterval + 1

\* RestartHandler.__init__, lines 9-11: last_reload = time.time().  The
\* handler was built at time 0 and has handled nothing since, so that the gate
\* is open, or it is built at this instant.
HandlerInit ==
    /\ now = HandlerStart
    /\ last_reload \in {0, HandlerStart}
    /\ opc = "idle"
    /\ event = NoEvent
    /\ log = <<>>
    /\ mpc = "start"
    /\ wakeAt = 0
    /\ interrupted = FALSE
    /\ waitDeadline = 0
    /\ stopped = FALSE
    /\ queue = <<>>
    /\ process = 0
    /\ children = [h \in Handles |-> NoChild]
    /\ signal = NoSignal
    /\ manifest = "present"
    /\ ipc = "none"
    /\ pip = [st |-> "none", rc |-> 0, err |-> <<>>, plan |-> <<>>]
    /\ pipe = <<>>
    /\ wrote = <<>>
    /\ emitted = <<>>
    /\ gui = 0
    /\ window = [log_label |-> <<"Checking environment...">>,
                 title |-> "Initializing", button |-> FALSE, timer |-> FALSE,
                 closed |-> FALSE, launches |-> 0, critical |-> FALSE]

HandlerTick ==
    /\ now < MaxHandlerTime
    /\ opc = "callback" => now < log[Len(log)].at + MaxCallbackTime
    /\ now' = now + 1
    /\ event' = IF opc = "callback" THEN event ELSE NoEvent
    /\ UNCHANGED <<mpc, wakeAt, interrupted, opc, waitDeadline, stopped, queue,
                   process, children, last_reload, signal, log>>
    /\ UNCHANGED lvars

\* on_modified, lines 13-22, up to the call of the callback.
on_modified(e) ==
    /\ opc \in {"idle", "raised"}
    /\ event' = e
    /\ IF Qualifies(e)
       THEN /\ Len(log) < MaxEvents
            /\ log' = Append(log, [at |-> now,
                                   fired |-> GateOpen(now, last_reload)])
       ELSE log' = log
    /\ opc' = IF Fires(e, now, last_reload) THEN "callback" ELSE "idle"
    /\ UNCHANGED <<now, mpc, wakeAt, interrupted, waitDeadline, stopped, queue,
                   process, children, last_reload, signal>>
    /\ UNCHANGED lvars

\* on_modified, lines 22-23: the callback returns, last_reload = time.time().
CallbackReturns ==
    /\ opc = "callback"
    /\ last_reload' = now
    /\ opc' = "idle"
    /\ UNCHANGED <<now, mpc, wakeAt, interrupted, waitDeadline, stopped, queue,
                   process, children, signal, event, log>>
    /\ UNCHANGED lvars

\* on_modified, line 22: the callback raises; line 23 is not executed and the
\* exception leaves on_modified.
CallbackRaises ==
    /\ opc = "callback"
    /\ opc' = "raised"
    /\ UNCHANGED <<now, mpc, wakeAt, interrupted, waitDeadline, stopped, queue,
                   process, children, last_reload, signal, event, log>>
    /\ UNCHANGED lvars

\* RestartHandler overrides on_modified only (line 8): for a created event the
\* handler runs the on_created it inherits, which does nothing.
on_created(e) ==
    /\ opc \in {"idle", "raised"}
    /\ event' = e
    /\ opc' = "idle"
    /\ UNCHANGED <<now, mpc, wakeAt, interrupted, waitDeadline, stopped, queue,
                   process, children, last_reload, signal, log>>
    /\ UNCHANGED lvars

\* Likewise the inherited on_deleted for a deleted event.
on_deleted(e) ==
    /\ opc \in {"idle", "raised"}
    /\ event' = e
    /\ opc' = "idle"
    /\ UNCHANGED <<now, mpc, wakeAt, interrupted, waitDeadline, stopped, queue,
                   process, children, last_reload, signal, log>>
    /\ UNCHANGED lvars

\* The observer calls the method of the handler that goes with the event's
\* type.
HandlerNext ==
    \/ HandlerTick
    \/ \E e \in {x \in Events : x.event_type = "modified"} : on_modified(e)
    \/ \E e \in {x \in Events : x.event_type = "created"} : on_created(e)
    \/ \E e \in {x \in Events : x.event_type = "deleted"} : on_deleted(e)
    \/ CallbackReturns
    \/ CallbackRaises

SpecHandler == HandlerInit /\ [][HandlerNext]_vars

----------------------------------------------------------------------------
(* The launcher (src/launcher.py), the program run_app starts: the         *)
(* DependencyInstaller thread, the install subprocess it runs and the      *)
(* LauncherWindow that handles its signals in the GUI thread.  Signals     *)
(* emitted by the thread are queued to the GUI thread and handled in the   *)
(* order of emission.  The stdout pipe reaches end of file when the        *)
(* subprocess has exited; reads of the pipes do not fail.                  *)

\* A message is a sequence of strings: the fixed texts are one string, the
\* texts built from the subprocess's output are sequences of characters.
Checking   == <<"Checking dependencies...">>
NotFound   == <<"requirements.txt not found. Skipping check.">>
Installing == <<"Installing/Verifying dependencies via pip...">>
Installed  == <<"Dependencies installed successfully.">>
CheckingEnvironment == <<"Checking environment...">>
ReadyToLaunch == <<"Ready to launch!">>

\* launcher.py:60  f"Error: {stderr}"
ErrorPrefix == <<"E", "r", "r", "o", "r", ":", " ">>
\* launcher.py:64  f"Failed to run pip: {e}"
FailedPrefix == <<"F", "a", "i", "l", "e", "d", " ", "t", "o", " ",
                  "r", "u", "n", " ", "p", "i", "p", ":", " ">>

\* The characters the install subprocess writes to stdout.
Chars == {"a", " ", "\n"}
\* What it may have written to stderr when it exits, and its exit codes.
StderrTexts == {<<>>, <<"x">>}
\* What it may set out to write to stderr: nothing, a text that fits into the
\* pipe, one that does not.
StderrPlans == StderrTexts \cup {[i \in 1..(PipeCapacity + 1) |-> "x"]}
PipExitCodes == {0, 1, -9}
\* The messages of the OSError Popen raises.
OSErrors == {<<"x">>, <<"n", "o">>}

Progress(m) == [sig |-> "progress", msg |-> m, ok |-> FALSE]
Finished(b) == [sig |-> "finished", msg |-> <<>>, ok |-> b]

Whitespace == {" ", "\n"}

RECURSIVE LStrip(_)
LStrip(s) ==
    IF s # <<>> /\ Head(s) \in Whitespace THEN LStrip(Tail(s)) ELSE s

RECURSIVE RStrip(_)
RStrip(s) ==
    IF s # <<>> /\ s[Len(s)] \in Whitespace
    THEN RStrip(SubSeq(s, 1, Len(s) - 1))
    ELSE s

\* str.strip()
Strip(s) == RStrip(LStrip(s))

HasNewline(s) == \E i \in 1..Len(s) : s[i] = "\n"

\* What readline() returns from the characters s once it can return: up to
\* and including the first newline, or everything at end of file.
LineRead(s) ==
    IF HasNewline(s)
    THEN SubSeq(s, 1, CHOOSE i \in 1..Len(s) :
                          s[i] = "\n" /\ \A j \in 1..(i - 1) : s[j] # "\n")
    ELSE s

\* Success for every exit code that is not a signal's.
SuccessUnlessSignalled(rc) == rc >= 0

\* launcher.py:55  "if rc == 0"
Success(rc) == rc = 0

\* launcher.py:60
InstallFailureMessage(stderr) == ErrorPrefix \o stderr

\* StartFailureMessage with the text of line 60.
StartFailureAsError(e) == ErrorPrefix \o e

\* launcher.py:64
StartFailureMessage(e) == FailedPrefix \o e

\* st: "none", "running", "exited", or "failed" (Popen raised).  rc: the exit
\* code.  err: what it has written to stderr, all of which is in the pipe
\* until line 59 reads it (or the OSError's message if Popen raised).  plan:
\* what it still has to write to stderr before it exits.
NoPip == [st |-> "none", rc |-> 0, err |-> <<>>, plan |-> <<>>]

NewWindow ==
    [log_label |-> CheckingEnvironment, title |-> "Initializing", button |-> FALSE,
     timer |-> FALSE, closed |-> FALSE, launches |-> 0, critical |-> FALSE]

\* The launcher before LauncherWindow.start_check.
LauncherIdle ==
    /\ ipc = "none"
    /\ pip = NoPip
    /\ pipe = <<>>
    /\ wrote = <<>>
    /\ emitted = <<>>
    /\ gui = 0
    /\ window = NewWindow

\* LauncherWindow.start_check, lines 109-113: the installer thread is started.
\* The launcher is the child process run_app has started.
start_check ==
    /\ process # 0
    /\ children[process].st = "running"
    /\ ipc = "none"
    /\ ipc' = "run"
    /\ UNCHANGED <<manifest, pip, pipe, wrote, emitted, gui, window>>
    /\ UNCHANGED <<now, mpc, wakeAt, interrupted, opc, waitDeadline, stopped,
                   queue, process, children, last_reload, signal, event, log>>

\* RunCheck going on to pip although the manifest is absent.
RunCheckIgnoresMissing ==
    /\ ipc = "run"
    /\ emitted' = emitted \o <<Progress(Checking), Progress(Installing)>>
    /\ ipc' = "popen"
    /\ UNCHANGED <<manifest, pip, pipe, wrote, gui, window>>
    /\ UNCHANGED <<now, mpc, wakeAt, interrupted, opc, waitDeadline, stopped,
                   queue, process, children, last_reload, signal, event, log>>

\* DependencyInstaller.run, lines 14-36: the manifest is opened and read; if
\* it does not exist success is reported and run returns.  Any other error of
\* open or of reading it (PermissionError, IsADirectoryError, a decoding
\* error) is not caught and leaves run.
RunCheck ==
    /\ ipc = "run"
    /\ CASE manifest = "present" ->
              /\ emitted' = emitted \o <<Progress(Checking), Progress(Installing)>>
              /\ ipc' = "popen"
         [] manifest = "absent" ->
              /\ emitted' = emitted \o <<Progress(Checking), Progress(NotFound),
                                         Finished(TRUE)>>
              /\ ipc' = "end"
         [] manifest = "unreadable" ->
              /\ emitted' = emitted \o <<Progress(Checking)>>
              /\ ipc' = "raised"
    /\ UNCHANGED <<manifest, pip, pipe, wrote, gui, window>>
    /\ UNCHANGED <<now, mpc, wakeAt, interrupted, opc, waitDeadline, stopped,
                   queue, process, children, last_reload, signal, event, log>>

\* run, lines 40-45: the install subprocess is started, its stdout and its
\* stderr each connected to a pipe.
PopenStarts(plan) ==
    /\ ipc = "popen"
    /\ pip' = [NoPip EXCEPT !.st = "running", !.plan = plan]
    /\ ipc' = "read"
    /\ UNCHANGED <<manifest, pipe, wrote, emitted, gui, window>>
    /\ UNCHANGED <<now, mpc, wakeAt, interrupted, opc, waitDeadline, stopped,
                   queue, process, children, last_reload, signal, event, log>>

\* run, lines 40 and 63-65: Popen raises OSError with message e.
PopenFails(e) ==
    /\ ipc = "popen"
    /\ pip' = [NoPip EXCEPT !.st = "failed", !.err = e]
    /\ emitted' = emitted \o <<Progress(StartFailureMessage(e)), Finished(FALSE)>>
    /\ ipc' = "end"
    /\ UNCHANGED <<manifest, pipe, wrote, gui, window>>
    /\ UNCHANGED <<now, mpc, wakeAt, interrupted, opc, waitDeadline, stopped,
                   queue, process, children, last_reload, signal, event, log>>

\* The install subprocess writes a character to its standard output.
PipWrite(c) ==
    /\ pip.st = "running"
    /\ Len(wrote) < MaxOutput
    /\ pipe' = Append(pipe, c)
    /\ wrote' = Append(wrote, c)
    /\ UNCHANGED <<manifest, ipc, pip, emitted, gui, window>>
    /\ UNCHANGED <<now, mpc, wakeAt, interrupted, opc, waitDeadline, stopped,
                   queue, process, children, last_reload, signal, event, log>>

\* The install subprocess writes the next character to its standard error.
\* Nothing reads that pipe while the subprocess runs (line 59 comes after the
\* loop), so the write blocks once the pipe is full.
PipWriteErr ==
    /\ pip.st = "running"
    /\ pip.plan # <<>>
    /\ Len(pip.err) < PipeCapacity
    /\ pip' = [pip EXCEPT !.err = Append(@, Head(pip.plan)),
                          !.plan = Tail(@)]
    /\ UNCHANGED <<manifest, ipc, pipe, wrote, emitted, gui, window>>
    /\ UNCHANGED <<now, mpc, wakeAt, interrupted, opc, waitDeadline, stopped,
                   queue, process, children, last_reload, signal, event, log>>

\* The install subprocess exits with code rc, having written all it had to.
PipExit(rc) ==
    /\ pip.st = "running"
    /\ pip.plan = <<>>
    /\ pip' = [pip EXCEPT !.st = "exited", !.rc = rc]
    /\ UNCHANGED <<manifest, ipc, pipe, wrote, emitted, gui, window>>
    /\ UNCHANGED <<now, mpc, wakeAt, interrupted, opc, waitDeadline, stopped,
                   queue, process, children, last_reload, signal, event, log>>

\* ReadLine leaving the loop as soon as the subprocess has exited.
ReadLineUntilExit ==
    /\ ipc = "read"
    /\ HasNewline(pipe) \/ pip.st = "exited"
    /\ IF pip.st = "exited"
       THEN /\ ipc' = "verdict"
            /\ UNCHANGED <<pipe, emitted>>
       ELSE /\ pipe' = SubSeq(pipe, Len(LineRead(pipe)) + 1, Len(pipe))
            /\ emitted' = Append(emitted, Progress(Strip(LineRead(pipe))))
            /\ ipc' = "read"
    /\ UNCHANGED <<manifest, pip, wrote, gui, window>>
    /\ UNCHANGED <<now, mpc, wakeAt, interrupted, opc, waitDeadline, stopped,
                   queue, process, children, last_reload, signal, event, log>>

\* run, lines 47-52: one turn of the loop.  readline() returns when a whole
\* line or the end of file is there; an empty result with the subprocess
\* exited ends the loop, anything else is stripped and emitted.
ReadLine ==
    /\ ipc = "read"
    /\ HasNewline(pipe) \/ pip.st = "exited"
    /\ pipe' = SubSeq(pipe, Len(LineRead(pipe)) + 1, Len(pipe))
    /\ IF LineRead(pipe) = <<>>
       THEN /\ ipc' = "verdict"
            /\ emitted' = emitted
       ELSE /\ ipc' = "read"
            /\ emitted' = Append(emitted, Progress(Strip(LineRead(pipe))))
    /\ UNCHANGED <<manifest, pip, wrote, gui, window>>
    /\ UNCHANGED <<now, mpc, wakeAt, interrupted, opc, waitDeadline, stopped,
                   queue, process, children, last_reload, signal, event, log>>

\* run, lines 54-61: the verdict after the loop.
Verdict ==
    /\ ipc = "verdict"
    /\ emitted' = emitted \o
          (IF Success(pip.rc)
           THEN <<Progress(Installed), Finished(TRUE)>>
           ELSE <<Progress(InstallFailureMessage(pip.err)), Finished(FALSE)>>)
    /\ ipc' = "end"
    /\ UNCHANGED <<manifest, pip, pipe, wrote, gui, window>>
    /\ UNCHANGED <<now, mpc, wakeAt, interrupted, opc, waitDeadline, stopped,
                   queue, process, children, last_reload, signal, event, log>>

\* LauncherWindow.update_log, lines 115-116.
update_log(w, message) == [w EXCEPT !.log_label = message]

\* LauncherWindow.on_install_finished, lines 118-135.
on_install_finished(w, success) ==
    IF success
    THEN [w EXCEPT !.log_label = ReadyToLaunch, !.button = TRUE,
                   !.title = "Initialization Complete", !.timer = TRUE]
    ELSE [w EXCEPT !.title = "Initialization Failed", !.critical = TRUE]

\* LauncherWindow.launch_main_app, lines 137-148.
launch_main_app(w) == [w EXCEPT !.closed = TRUE, !.launches = @ + 1]

\* The GUI thread handles the next signal of the installer (lines 111-112).
GuiDeliver ==
    /\ gui < Len(emitted)
    /\ gui' = gui + 1
    /\ window' = IF emitted[gui + 1].sig = "progress"
                 THEN update_log(window, emitted[gui + 1].msg)
                 ELSE on_install_finished(window, emitted[gui + 1].ok)
    /\ UNCHANGED <<manifest, ipc, pip, pipe, wrote, emitted>>
    /\ UNCHANGED <<now, mpc, wakeAt, interrupted, opc, waitDeadline, stopped,
                   queue, process, children, last_reload, signal, event, log>>

\* launcher.py:130: the single-shot timer of on_install_finished fires.
TimerFires ==
    /\ window.timer
    /\ window' = launch_main_app([window EXCEPT !.timer = FALSE])
    /\ UNCHANGED <<manifest, ipc, pip, pipe, wrote, emitted, gui>>
    /\ UNCHANGED <<now, mpc, wakeAt, interrupted, opc, waitDeadline, stopped,
                   queue, process, children, last_reload, signal, event, log>>

\* launcher.py:102: the user clicks "Launch Application" while it is shown.
ClickStart ==
    /\ window.button
    /\ ~window.closed
    /\ window' = launch_main_app(window)
    /\ UNCHANGED <<manifest, ipc, pip, pipe, wrote, emitted, gui>>
    /\ UNCHANGED <<now, mpc, wakeAt, interrupted, opc, waitDeadline, stopped,
                   queue, process, children, last_reload, signal, event, log>>

\* The reloader about to start, with or without a requirements.txt.
LauncherInit ==
    /\ now = 0
    /\ mpc = "start"
    /\ wakeAt = 0
    /\ interrupted = FALSE
    /\ opc = "none"
    /\ waitDeadline = 0
    /\ stopped = FALSE
    /\ queue = <<>>
    /\ process = 0
    /\ children = [h \in Handles |-> NoChild]
    /\ last_reload = 0
    /\ signal = NoSignal
    /\ event = NoEvent
    /\ log = <<>>
    /\ manifest \in {"present", "absent", "unreadable"}
    /\ LauncherIdle

\* The reloader starts the launcher (MainStart), then the launcher runs.
LauncherNext ==
    \/ MainStart
    \/ start_check
    \/ RunCheck
    \/ \E plan \in StderrPlans : PopenStarts(plan)
    \/ \E e \in OSErrors : PopenFails(e)
    \/ \E c \in Chars : PipWrite(c)
    \/ PipWriteErr
    \/ \E rc \in PipExitCodes : PipExit(rc)
    \/ ReadLine
    \/ Verdict
    \/ GuiDeliver
    \/ TimerFires
    \/ ClickStart

SpecLauncher == LauncherInit /\ [][LauncherNext]_vars

\* The installer thread and the GUI thread are scheduled and the timer fires.
\* Nothing is assumed of the install subprocess or the user.
InstallerStep ==
    RunCheck \/ (\E plan \in StderrPlans : PopenStarts(plan)) \/ ReadLine \/ Verdict
GuiStep == start_check \/ GuiDeliver \/ TimerFires

FairSpecLauncher ==
    SpecLauncher /\ WF_vars(InstallerStep) /\ WF_vars(GuiStep)

\* Moreover the install subprocess is scheduled: it writes what it has to
\* write to stderr when the pipe has room, and then exits.
PipStep == PipWriteErr \/ (\E rc \in PipExitCodes : PipExit(rc))

FairSpecInstall == FairSpecLauncher /\ WF_vars(PipStep)

----------------------------------------------------------------------------
(* The claims.                                                             *)

\* C1: at most one child started by run_app is alive at any instant, and when
\* the stop part of restart_process has returned (the thread is about to spawn)
\* no child is running.
C1_AtMostOneChildAlive ==
    /\ Cardinality(Alive) <= 1
    /\ opc = "spawn" => (children[process].seen /\ Alive = {})

\* C2: once the current child has exited by itself with code 0 while the
\* supervisor was Running, no further child is spawned.
C2_NoSpawnAfterCleanExit ==
    \A h \in Handles :
        (children[h].st = "exited" /\ children[h].own /\ children[h].rc = 0)
            => nSpawned = h

\* C3: while the supervisor is Crashed (the current child has exited with a
\* nonzero code and no restart is in progress) and is not interrupted, every
\* step leaves the number of spawned children unchanged, the main loop stays
\* in its loop and the watcher stays active, however often the loop polls.
C3_NoRespawnWhileCrashed ==
    [][(Phase = "Crashed" /\ mpc = "sleep" /\ ~interrupted')
          => (nSpawned' = nSpawned /\ mpc' = "sleep" /\ ~stopped')]_vars

\* The current child crashed by itself and the main loop has polled since.
C3_Witness ==
    /\ Phase = "Crashed"
    /\ children[process].own
    /\ children[process].seen
    /\ mpc = "sleep"
    /\ ~stopped

\* C4: when the callback invoked for a change signal that found the supervisor
\* Crashed has returned, exactly one child has been spawned since the signal;
\* it has a new handle, is the current child and has not been signalled.
C4_RestartAfterCrash ==
    (opc \in {"set", "idle"} /\ signal.phase = "Crashed")
        => /\ nSpawned = signal.proc + 1
           /\ process = nSpawned
           /\ process # signal.proc
           /\ children[process].st # "none"
           /\ children[process].sig = "none"
           /\ children[signal.proc].st = "exited"

\* A restart out of Crashed has completed and its child is running.
C4_Witness ==
    /\ opc = "idle"
    /\ signal.phase = "Crashed"
    /\ children[process].st = "running"
    /\ Phase = "Running"

\* C5: no two change signals are emitted less than min_interval apart,
\* whatever the callback does.
C5_SignalsSpacedApart ==
    \A i, j \in 1..Len(log) :
        (i < j /\ log[i].fired /\ log[j].fired)
            => log[j].at - log[i].at >= MinInterval

\* An event that is a directory event or whose path ends in neither ".py" nor
\* ".ini".
NotWatched(e) ==
    \/ e.is_directory
    \/ /\ ~EndsWith(e.src_path, <<".", "p", "y">>)
       /\ ~EndsWith(e.src_path, <<".", "i", "n", "i">>)

\* C6: a call of on_modified with an event that is not watched emits no
\* signal (the callback is not called, nothing is logged as fired) and leaves
\* last_reload unchanged, whatever the time.
C6_UnwatchedIgnored ==
    [][(opc \in {"idle", "raised"} /\ event' # NoEvent /\ NotWatched(event'))
          => (opc' = "idle" /\ log' = log /\ last_reload' = last_reload)]_vars

\* on_modified has just been called with a directory whose name ends in
\* ".py" while the debounce gate was open.
C6_Witness ==
    /\ opc = "idle"
    /\ event.is_directory
    /\ EndsWith(event.src_path, <<".", "p", "y">>)
    /\ GateOpen(now, last_reload)

\* The index of the last logged event that fired, 0 if none did.
LastFired ==
    LET F == {i \in 1..Len(log) : log[i].fired}
    IN  IF F = {} THEN 0 ELSE CHOOSE i \in F : \A j \in F : j <= i

\* C7: once a signal has been emitted, last_reload is the time of that
\* emission; and of three watched-file events handled at t, t + 0.2 and
\* t + 1.5, the first of which fires, exactly the first and the third fire.
C7_DebounceRule ==
    /\ (opc # "callback" /\ LastFired # 0) => last_reload = log[LastFired].at
    /\ \A i \in 1..(Len(log) - 2) :
          (/\ log[i].fired
           /\ log[i + 1].at = log[i].at + 2
           /\ log[i + 2].at = log[i].at + 15)
              => (~log[i + 1].fired /\ log[i + 2].fired)

\* C8: Stopped is terminal.  Once main() has stopped the observer and left its
\* loop, the supervisor stays Stopped: no child is spawned or signalled, the
\* callback does not run, last_reload and the current child do not change, and
\* no event is queued or dispatched.
C8_StoppedIsTerminal ==
    [][Phase = "Stopped"
          => /\ Phase' = "Stopped"
             /\ nSpawned' = nSpawned
             /\ \A h \in Handles : children'[h].sig = children[h].sig
             /\ process' = process
             /\ opc' = opc
             /\ signal' = signal
             /\ last_reload' = last_reload
             /\ queue' = <<>>]_vars

\* main() has returned after an interrupt that arrived during a restart: two
\* children were started and one is still running.
C8_Witness ==
    /\ mpc = "done"
    /\ stopped
    /\ interrupted
    /\ nSpawned >= 2
    /\ Alive # {}

\* C9: when main() returns after a KeyboardInterrupt, no child started by the
\* supervisor is alive.
C9_InterruptLeavesNoChild ==
    (mpc = "done" /\ interrupted) => Alive = {}

\* The last instant the supervisor's clock reaches.
Horizon == (MaxTime \div TimeStep) * TimeStep

\* C10: the wait of restart_process never outlasts its deadline, and every
\* restart whose deadline lies within the horizon completes: the callback
\* returns (or the spawn fails), even if the old child never exits by itself.
C10_RestartCompletes ==
    /\ [](opc = "wait" => now <= waitDeadline)
    /\ [](opc = "kill" => now >= waitDeadline)
    /\ (opc \in {"wait", "kill", "spawn"} /\ waitDeadline <= Horizon)
          ~> (opc \in {"idle", "dead"})

\* A restart has completed in which the old child had to be killed.
C10_Witness ==
    /\ opc = "idle"
    /\ signal # NoSignal
    /\ children[signal.proc].sig = "kill"
    /\ process = signal.proc + 1

\* C11: restart_process called when no child is running behaves like a plain
\* spawn.  Its terminate() signals nothing and changes no child's state, its
\* wait() returns without time passing and without a kill, and its spawn
\* starts exactly one child, which is then the current child and the only one
\* running.
C11_RestartWithNoChild ==
    [][/\ (opc = "idle" /\ opc' = "wait" /\ Alive = {})
           => \A h \in Handles : /\ children'[h].sig = children[h].sig
                                 /\ children'[h].st = children[h].st
       /\ (opc = "wait" /\ signal.idle)
           => (opc' \in {"wait", "spawn"} /\ now' = now /\ Alive' = {})
       /\ (opc = "spawn" /\ signal.idle /\ opc' # "spawn")
           => \/ opc' = "dead" /\ nSpawned' = nSpawned
              \/ /\ opc' = "set"
                 /\ nSpawned' = nSpawned + 1
                 /\ process' = nSpawned'
                 /\ Alive' = {process'}]_vars

\* A restart called with the current child exited and not yet polled, and no
\* other child running, has returned and its child is running.
C11_Witness ==
    /\ opc = "idle"
    /\ signal.idle
    /\ process = signal.proc + 1
    /\ children[signal.proc].sig = "none"
    /\ Alive = {process}

\* C12: when requirements.txt is absent, DependencyInstaller.run never starts
\* the install subprocess and goes straight to its end, where it has emitted
\* the two progress messages and finished(True), and nothing else.
C12_AbsentManifestSucceeds ==
    manifest = "absent"
        => /\ pip.st = "none"
           /\ ipc \in {"none", "run", "end"}
           /\ ipc = "end"
                 => emitted = <<[sig |-> "progress", msg |-> Checking, ok |-> FALSE],
                                [sig |-> "progress", msg |-> NotFound, ok |-> FALSE],
                                [sig |-> "finished", msg |-> <<>>, ok |-> TRUE]>>
           /\ ipc # "end" => emitted = <<>>

\* run has returned without a manifest and the window has been told.
C12_Witness ==
    /\ manifest = "absent"
    /\ ipc = "end"
    /\ gui = Len(emitted)
    /\ window.title = "Initialization Complete"

\* The verdicts emitted so far.
Verdicts == SelectSeq(emitted, LAMBDA n : n.sig = "finished")

RECURSIVE SplitLines(_)
SplitLines(s) ==
    IF s = <<>> THEN <<>>
    ELSE LET n == IF \E i \in 1..Len(s) : s[i] = "\n"
                  THEN CHOOSE i \in 1..Len(s) :
                           s[i] = "\n" /\ \A j \in 1..(i - 1) : s[j] # "\n"
                  ELSE Len(s)
         IN  <<SubSeq(s, 1, n)>> \o SplitLines(SubSeq(s, n + 1, Len(s)))

Report == SubSeq(emitted, Len(emitted) - 1, Len(emitted))

C16_BootstrapFailureStops ==
    (\E i \in 1..Len(emitted) : emitted[i].sig = "finished" /\ ~emitted[i].ok)
        => /\ Phase = "Stopped"
           /\ nSpawned = 0
           /\ opc = "none"
           /\ window.launches = 0

\* C17: a failure of run_app is fatal.  After run_app has raised at the start
\* main() has ended and nothing happens any more; after run_app has raised
\* inside a restart the main loop does not begin another sleep: its next poll
\* ends the loop.
C17_SpawnFailureIsFatal ==
    [][/\ mpc = "failed" => (mpc' = "failed" /\ nSpawned' = 0 /\ opc' = "none")
       /\ (opc = "dead" /\ mpc = "sleep") => wakeAt' <= wakeAt]_vars

\* C18: the supervisor runs the child also when file watching is unavailable.
\* Once main() has passed its start without run_app failing, a child has been
\* spawned, and when main() has returned with no observer ever created the
\* child had been supervised up to its clean exit or an interrupt.
C18_RunsWithoutWatcher ==
    /\ mpc \notin {"start", "failed"} => nSpawned >= 1
    /\ (mpc = "done" /\ opc = "none")
          => (interrupted \/ (process # 0 /\ children[process].st = "exited"))

\* restart_process is being executed.
Restarting == opc \in {"wait", "kill", "spawn", "set"}

\* C19: restarts are serialized.  While restart_process is being executed no
\* other call of it begins and no queued event is taken from the queue; a call
\* begins only when none is in progress; and while one is in progress the only
\* child signalled is the one it found and the only spawn is its own.
C19_RestartsSerialized ==
    [][/\ Restarting
           => /\ signal' = signal
              /\ Len(queue') >= Len(queue)
              /\ \A h \in Handles :
                    children'[h].sig # children[h].sig
                        => (h = signal.proc /\ opc = "kill")
              /\ nSpawned' # nSpawned
                    => (opc = "spawn" /\ nSpawned' = nSpawned + 1)
       /\ signal' # signal => (opc = "idle" /\ opc' = "wait")]_vars

\* A second watched change is waiting in the observer's queue while the first
\* restart is in its grace-period wait, the child still running and the
\* debounce gate still open.
C19_Witness ==
    /\ opc = "wait"
    /\ children[process].st = "running"
    /\ now < waitDeadline
    /\ queue # <<>>
    /\ Fires(Head(queue), now, last_reload)

\* C20: the main loop takes an exit for a clean exit only if the child exited
\* by itself: when the loop has seen exit code 0 and is about to stop the
\* observer, the child it polled was not sent a signal by the supervisor.
C20_OnlyOwnExitNotified ==
    mpc = "clean_stop"
        => (children[process].own /\ children[process].sig = "none")

\* C21: the installer runs before the first child is spawned and before the
\* observer is started: when DependencyInstaller.run begins, run_app has
\* started no child and no observer exists.
C21_BootstrapBeforeSpawn ==
    [][(ipc = "none" /\ ipc' # "none") => (nSpawned = 0 /\ opc = "none")]_vars

\* C22: the main loop does not poll the child while restart_process is between
\* its termination request and its spawn, and the variable "process" is
\* written by the main thread only.
C22_OneEventAtATime ==
    [][/\ (mpc = "sleep" /\ opc \in {"wait", "kill", "spawn"} /\ ~interrupted')
           => (mpc' = "sleep" /\ wakeAt' = wakeAt)
       /\ process' # process => mpc' # mpc]_vars

\* C23: a created or deleted event for a file with a watched extension, handled
\* while the debounce gate is open, emits a change signal: the callback is
\* called, as for a modified event.
C23_AllKindsAlike ==
    [][(/\ opc \in {"idle", "raised"}
        /\ event' # event
        /\ event'.event_type \in {"created", "deleted"}
        /\ ~event'.is_directory
        /\ EndsWith(event'.src_path, <<".", "p", "y">>)
        /\ now - last_reload > MinInterval)
          => opc' = "callback"]_vars

\* C24: every execution of run emits the verdict exactly once and nothing
\* after it: never two verdicts, a verdict is the last signal emitted, and
\* when run is over, by returning or by an exception, one has been emitted.
C24_VerdictExactlyOnce ==
    /\ Len(SelectSeq(emitted, LAMBDA n : n.sig = "finished")) <= 1
    /\ \A i \in 1..Len(emitted) : emitted[i].sig = "finished" => i = Len(emitted)
    /\ ipc \in {"end", "raised"}
          => (emitted # <<>> /\ emitted[Len(emitted)].sig = "finished")

\* C25: run emits its verdict for every install subprocess that was started,
\* whatever it has to write to stderr.
C25_VerdictEventually ==
    (pip.st = "running") ~> (ipc = "end")

\* C26: launch_main_app creates the Dashboard at most once per LauncherWindow,
\* and only after finished(True) has been handled by the window.
C26_LaunchedAtMostOnce ==
    /\ window.launches <= 1
    /\ window.launches > 0
          => \E i \in 1..gui : emitted[i].sig = "finished" /\ emitted[i].ok

\* C27: the debounce gate starts closed.  The handler is built when main()
\* starts, at the instant the first child is spawned; whenever a change
\* signal has been emitted, more than min_interval has passed since then, and
\* as long as none has been emitted last_reload is that instant.
C27_GateStartsClosed ==
    /\ signal # NoSignal => now - children[1].at > MinInterval
    /\ (signal = NoSignal /\ process # 0) => last_reload = children[1].at

\* The first change signal of the run has just been emitted, at the first
\* instant of the clock that is more than min_interval after the start.
C27_Witness ==
    /\ opc = "wait"
    /\ signal.proc = 1
    /\ process = 1
    /\ now = children[1].at + MinInterval + TimeStep
    /\ waitDeadline = now + GracePeriod

\* C28: when restart_process begins (the termination request of a
\* change-triggered restart), the current child was spawned more than
\* min_interval ago; and whenever the handler is idle, last_reload is not
\* earlier than the spawn of the current child.
C28_UptimeBeforeRestart ==
    [][/\ (opc = "idle" /\ opc' = "wait")
           => now - children[process].at > MinInterval
       /\ opc' = "idle" => last_reload' >= children'[process'].at]_vars

\* A child spawned by a restart is itself being terminated by the next
\* restart, at the first instant of the clock at which the gate lets it.
C28_Witness ==
    /\ opc = "wait"
    /\ signal.proc = 2
    /\ children[2].sig = "term"
    /\ children[2].st = "running"
    /\ now = children[2].at + MinInterval + TimeStep
====
